---- MODULE Spec2Model ----
(***************************************************************************)
(* Engine lifecycle layer of tidb-lightning (lightning/backend/backend.go): *)
(* the Backend facade, OpenedEngine and ClosedEngine handles, the retry     *)
(* loops of WriteRows and Import, the engine-count failpoint and            *)
(* CheckDiskQuota, over an in-memory AbstractBackend whose every call may   *)
(* succeed, fail with a retryable error or fail with a fatal error.         *)
(***************************************************************************)
EXTENDS Integers, Sequences, FiniteSets, TLC

VARIABLES
    bState,      \* backend: engine UUID -> "none" | "open" | "closed"
    bRows,       \* backend: engine UUID -> rows written and accepted so far
    maxChunk,    \* backend: the value MaxChunkSize() returns
    openCount,   \* metric.ImporterEngineCounter{"open"}
    closedCount, \* metric.ImporterEngineCounter{"closed"}
    failpoint,   \* value injected for FailIfEngineCountExceeds, or FailpointOff
    aborted,     \* the process panicked
    opened,      \* UUIDs of the OpenedEngine handles the caller holds
    closed,      \* UUIDs of the ClosedEngine handles the caller holds
    call,        \* the layer call in progress, or the last one and its result
    nOpened,     \* history: OpenEngine calls whose backend OpenEngine has returned nil
    nClosed,     \* history: OpenedEngine.Close calls whose backend CloseEngine has returned nil
    everClosed,  \* history: UUIDs on which a backend CloseEngine has succeeded
    wf,          \* position of the "usual workflow" driver
    hist,        \* calls recorded by the backend during the usual workflow
    fileSizes,   \* backend: the list EngineFileSizes() returns
    quotaRes,    \* the last CheckDiskQuota call and its result
    ident,       \* history: the identities handed to the backend, per process run
    cancelled,   \* the context of the Import call in progress: cancelled or not
    gor,         \* goroutines calling OpenEngine and Close concurrently
    peak         \* history: largest successful opens minus successful closes so far

vars == <<bState, bRows, maxChunk, openCount, closedCount, failpoint, aborted,
          opened, closed, call, nOpened, nClosed, everClosed, wf, hist,
          fileSizes, quotaRes, ident, cancelled, gor, peak>>

sideVars == <<ident, cancelled, gor, peak>>

lifecycleVars == <<bState, bRows, maxChunk, openCount, closedCount, failpoint,
                   aborted, opened, closed, call, nOpened, nClosed, everClosed>>

-----------------------------------------------------------------------------
(* Bounds of the model *)

\* largest value MaxChunkSize() returns
MaxChunk == 2

\* SpecRetry and SpecWorkflow: longest Rows value handed to one WriteRows call
MaxRows == 3

\* SpecRetry: most rows the backend holds for one engine
MaxStored == 3

\* Spec: longest Rows value handed to one WriteRows call
AnyRows == 1

\* Spec: most rows the backend holds for one engine
AnyStored == 2

\* Spec: cap on the open counter and on the closed counter
AnyCount == 2

\* SpecConcurrent: largest ceiling injected into FailIfEngineCountExceeds
MaxCeiling == 2

\* SpecRestore: how far the open counter may run past the ceiling
GuardSlack == 2

Tables == {"t"}

EngineIDs == {0, 1}

-----------------------------------------------------------------------------
(* Program constants *)

maxRetryTimes == 3

engineNamespace == "d68d6abe-c59e-45d6-ade8-e2b0ceb7bedf"

-----------------------------------------------------------------------------
(* Errors.  An error value is a record: kind is "nil", "retryable" or      *)
(* "fatal"; ann is the annotation errors.Annotatef put around it ("" when   *)
(* none), who and n the entity and retry count the annotation names.        *)

ResKinds == {"nil", "retryable", "fatal"}

Err(kind) == [kind |-> kind, ann |-> "", who |-> "", n |-> 0]

Nil == Err("nil")

Annotatef(err, ann, who, n) ==
    IF err.kind = "nil" THEN err
    ELSE [kind |-> err.kind, ann |-> ann, who |-> who, n |-> n]

IsRetryableError(err) == err.kind = "retryable"

-----------------------------------------------------------------------------
(* Engine identity *)

Digit(d) == CASE d = 0 -> "0" [] d = 1 -> "1" [] d = 2 -> "2" [] d = 3 -> "3"
              [] d = 4 -> "4" [] d = 5 -> "5" [] d = 6 -> "6" [] d = 7 -> "7"
              [] d = 8 -> "8" [] d = 9 -> "9"

RECURSIVE FormatNat(_)
FormatNat(n) == IF n < 10 THEN Digit(n) ELSE FormatNat(n \div 10) \o Digit(n % 10)

FormatInt(n) == IF n < 0 THEN "-" \o FormatNat(-n) ELSE FormatNat(n)

\* makeTag with the table name and the engine ID written side by side
makeTagNoSeparator(tableName, engineID) == tableName \o FormatInt(engineID)

makeTag(tableName, engineID) == tableName \o ":" \o FormatInt(engineID)

NewSHA1(space, name) == space \o "/" \o name

MakeUUID(tableName, engineID) ==
    LET tag == makeTag(tableName, engineID)
    IN  <<tag, NewSHA1(engineNamespace, tag)>>

UUIDs == {MakeUUID(t, e)[2] : t \in Tables, e \in EngineIDs}

-----------------------------------------------------------------------------
(* Rows *)

\* Rows values are opaque to the layer: the inputs are the collections of
\* pairwise distinct rows 1, 2, ..., n, so that a row lost, repeated or out
\* of place shows.
RowsOfLen(n) == [i \in 1..n |-> i]

RowsInputs(maxLen) == {RowsOfLen(n) : n \in 0..maxLen}

Min(a, b) == IF a < b THEN a ELSE b

RECURSIVE SplitIntoChunks(_, _)
SplitIntoChunks(rows, splitSize) ==
    IF rows = <<>> THEN <<>>
    ELSE LET k == Min(Len(rows), IF splitSize < 1 THEN 1 ELSE splitSize)
         IN  <<SubSeq(rows, 1, k)>> \o SplitIntoChunks(SubSeq(rows, k + 1, Len(rows)), splitSize)

RECURSIVE Concat(_)
Concat(ss) == IF ss = <<>> THEN <<>> ELSE Head(ss) \o Concat(Tail(ss))

-----------------------------------------------------------------------------
(* The in-memory backend behind AbstractBackend.  res is the outcome the    *)
(* backend gives the call.                                                  *)

BackendKinds == {"OpenEngine", "WriteRows", "CloseEngine", "ImportEngine",
                 "CleanupEngine", "ResetEngine"}

\* The outcomes the backend can give: rows are accepted by an open engine
\* only, and only an engine that exists can be closed.
Accepts(state, kind, u, res) ==
    /\ res \in ResKinds
    /\ (kind = "WriteRows" /\ state[u] # "open") => res # "nil"
    /\ (kind = "CloseEngine" /\ state[u] = "none") => res # "nil"

BackendCan(kind, u, res) == Accepts(bState, kind, u, res)

BackendStateAfter(kind, u, res) ==
    IF res # "nil" THEN bState
    ELSE CASE kind = "OpenEngine" -> [bState EXCEPT ![u] = "open"]
           [] kind = "CloseEngine" -> [bState EXCEPT ![u] = "closed"]
           [] OTHER -> bState

BackendRowsAfter(kind, u, arg, res) ==
    IF res # "nil" THEN bRows
    ELSE CASE kind = "WriteRows" -> [bRows EXCEPT ![u] = @ \o arg]
           [] kind = "ResetEngine" -> [bRows EXCEPT ![u] = <<>>]
           [] OTHER -> bRows

\* One entry of the record of backend calls: the call, the engine, the chunk
\* index and rows of a WriteRows, and the outcome.
Tr(kind, u, ci, arg, res) == [k |-> kind, u |-> u, c |-> ci, arg |-> arg, r |-> res]

-----------------------------------------------------------------------------
(* The layer call in progress *)

FailpointOff == -1

NoCall == [op |-> "none", u |-> "", table |-> "", pc |-> "done", chunks |-> <<>>,
           ci |-> 0, i |-> 0, err |-> Nil, ret |-> Nil, handle |-> FALSE,
           trace |-> <<>>, sleeps |-> 0, openRead |-> 0, closedRead |-> 0]

Idle == call.pc = "done" /\ ~aborted

Begin(op, u, table) == [NoCall EXCEPT !.op = op, !.u = u, !.table = table]

\* the call returns err; handle says whether a handle is returned with it
Return(c, err, handle) == [c EXCEPT !.pc = "done", !.ret = err, !.handle = handle]

Traced(c, entry) == [c EXCEPT !.trace = Append(@, entry)]

InitLifecycle ==
    /\ bState = [u \in UUIDs |-> "none"]
    /\ bRows = [u \in UUIDs |-> <<>>]
    /\ openCount = 0
    /\ closedCount = 0
    /\ aborted = FALSE
    /\ opened = {}
    /\ closed = {}
    /\ call = NoCall
    /\ nOpened = 0
    /\ nClosed = 0
    /\ everClosed = {}

NoWorkflow == [at |-> "off", table |-> "", id |-> 0, rows |-> <<>>]

NoQuotaRes == [quota |-> 0, order |-> <<>>, largeEngines |-> <<>>,
               inProgressLargeEngines |-> 0, totalSize |-> 0, done |-> FALSE]

NoIdent == [run |-> 0, log |-> {}, prior |-> {}]

NoCancel == [on |-> FALSE, attempts |-> 0, sleeps |-> 0]

InitSide ==
    /\ ident = NoIdent
    /\ cancelled = NoCancel
    /\ gor = <<>>
    /\ peak = 0

InitRest ==
    /\ wf = NoWorkflow
    /\ hist = <<>>
    /\ fileSizes = <<>>
    /\ quotaRes = NoQuotaRes
    /\ InitSide

Init ==
    /\ InitLifecycle
    /\ InitRest
    /\ maxChunk \in 1..MaxChunk
    /\ failpoint = FailpointOff

-----------------------------------------------------------------------------
(* One call of the backend: the outcome is one the backend can give, and   *)
(* the backend's state moves accordingly.                                   *)

BackendCall(kind, u, arg, res) ==
    /\ BackendCan(kind, u, res)
    /\ bState' = BackendStateAfter(kind, u, res)
    /\ bRows' = BackendRowsAfter(kind, u, arg, res)
    /\ everClosed' = IF kind = "CloseEngine" /\ res = "nil"
                     THEN everClosed \cup {u} ELSE everClosed

TableOf(u) == CHOOSE t \in Tables : \E e \in EngineIDs : MakeUUID(t, e)[2] = u

-----------------------------------------------------------------------------
(* Backend.OpenEngine and the FailIfEngineCountExceeds failpoint *)

EngineCountExceeds(openCnt, closedCnt, injectValue) ==
    openCnt - closedCnt > injectValue

FailIfEngineCountExceeds(openCnt, closedCnt) ==
    /\ failpoint # FailpointOff
    /\ EngineCountExceeds(openCnt, closedCnt, failpoint)

\* the order in which the failpoint reads the two counters
GuardReadOrder == <<"open", "closed">>

\* metric.ReadCounter of the counter of this label, into the record r of the
\* call or of the goroutine that reads
ReadCounter(r, label) ==
    IF label = "open" THEN [r EXCEPT !.openRead = openCount]
    ELSE [r EXCEPT !.closedRead = closedCount]

\* Backend.OpenEngine up to the return of be.abstract.OpenEngine: on an error
\* the call returns it
OpenEngine(tableName, engineID, res) ==
    LET engineUUID == MakeUUID(tableName, engineID)[2]
        c == Traced(Begin("OpenEngine", engineUUID, tableName),
                    Tr("OpenEngine", engineUUID, 0, <<>>, res))
    IN  /\ Idle
        /\ BackendCall("OpenEngine", engineUUID, <<>>, res)
        /\ call' = IF res # "nil" THEN Return(c, Err(res), FALSE)
                   ELSE [c EXCEPT !.pc = "openInc"]
        /\ nOpened' = IF res = "nil" THEN nOpened + 1 ELSE nOpened
        /\ UNCHANGED <<maxChunk, openCount, closedCount, failpoint, aborted,
                       opened, closed, nClosed>>

\* openCounter.Inc(); with the failpoint off the OpenedEngine is returned
OpenCounterInc ==
    /\ ~aborted
    /\ call.pc = "openInc"
    /\ openCount' = openCount + 1
    /\ IF failpoint = FailpointOff
       THEN /\ call' = Return(call, Nil, TRUE)
            /\ opened' = opened \cup {call.u}
       ELSE /\ call' = [call EXCEPT !.pc = "guard1"]
            /\ UNCHANGED opened
    /\ UNCHANGED <<bState, bRows, everClosed, maxChunk, closedCount, failpoint,
                   aborted, closed, nOpened, nClosed>>

\* the failpoint's first metric.ReadCounter
GuardFirstRead ==
    /\ ~aborted
    /\ call.pc = "guard1"
    /\ call' = [ReadCounter(call, GuardReadOrder[1]) EXCEPT !.pc = "guard2"]
    /\ UNCHANGED <<bState, bRows, everClosed, maxChunk, openCount, closedCount,
                   failpoint, aborted, opened, closed, nOpened, nClosed>>

\* the failpoint's second metric.ReadCounter and its test: panic, or the
\* OpenedEngine is returned
GuardSecondRead ==
    LET r == ReadCounter(call, GuardReadOrder[2])
    IN  /\ ~aborted
        /\ call.pc = "guard2"
        /\ aborted' = FailIfEngineCountExceeds(r.openRead, r.closedRead)
        /\ IF aborted'
           THEN /\ call' = Return(r, Err("panic"), FALSE)
                /\ UNCHANGED opened
           ELSE /\ call' = Return(r, Nil, TRUE)
                /\ opened' = opened \cup {call.u}
        /\ UNCHANGED <<bState, bRows, everClosed, maxChunk, openCount, closedCount,
                       failpoint, closed, nOpened, nClosed>>

-----------------------------------------------------------------------------
(* engine.unsafeClose, OpenedEngine.Close, Backend.UnsafeCloseEngine *)

\* what unsafeClose returns for the backend's error: the error, and whether
\* a ClosedEngine comes with it
unsafeCloseKeepsHandle(c, err) == Return(c, err, TRUE)

unsafeClose(c, err) == Return(c, err, err.kind = "nil")

\* ClosedCounterAfter counting every Close call
ClosedCounterAlways(cnt, err) == cnt + 1

\* the closed counter once unsafeClose has returned err
ClosedCounterAfter(cnt, err) == IF err.kind = "nil" THEN cnt + 1 ELSE cnt

\* OpenedEngine.Close up to the return of unsafeClose
Close(u, res) ==
    LET c == Traced(Begin("Close", u, TableOf(u)), Tr("CloseEngine", u, 0, <<>>, res))
    IN  /\ Idle
        /\ u \in opened
        /\ BackendCall("CloseEngine", u, <<>>, res)
        /\ call' = [unsafeClose(c, Err(res)) EXCEPT !.pc = "closeInc"]
        /\ nClosed' = IF res = "nil" THEN nClosed + 1 ELSE nClosed
        /\ UNCHANGED <<maxChunk, openCount, closedCount, failpoint, aborted,
                       opened, closed, nOpened>>

\* the rest of OpenedEngine.Close: the closed counter's Inc() if err == nil,
\* and the return of what unsafeClose returned
CloseCounterInc ==
    /\ ~aborted
    /\ call.pc = "closeInc"
    /\ closedCount' = ClosedCounterAfter(closedCount, call.ret)
    /\ call' = [call EXCEPT !.pc = "done"]
    /\ closed' = IF call.handle THEN closed \cup {call.u} ELSE closed
    /\ UNCHANGED <<bState, bRows, everClosed, maxChunk, openCount, failpoint,
                   aborted, opened, nOpened, nClosed>>

UnsafeCloseEngineWithUUID(tag, engineUUID, res) ==
    LET c == Traced(Begin("UnsafeCloseEngine", engineUUID, ""),
                    Tr("CloseEngine", engineUUID, 0, <<>>, res))
    IN  /\ Idle
        /\ BackendCall("CloseEngine", engineUUID, <<>>, res)
        /\ call' = unsafeClose(c, Err(res))
        /\ closed' = IF call'.handle THEN closed \cup {engineUUID} ELSE closed
        /\ UNCHANGED <<maxChunk, openCount, closedCount, failpoint, aborted,
                       opened, nOpened, nClosed>>

UnsafeCloseEngine(tableName, engineID, res) ==
    LET id == MakeUUID(tableName, engineID)
    IN  UnsafeCloseEngineWithUUID(id[1], id[2], res)

-----------------------------------------------------------------------------
(* ClosedEngine.Cleanup *)

Cleanup(u, res) ==
    LET c == Traced(Begin("Cleanup", u, ""), Tr("CleanupEngine", u, 0, <<>>, res))
    IN  /\ Idle
        /\ u \in closed
        /\ BackendCall("CleanupEngine", u, <<>>, res)
        /\ call' = Return(c, Err(res), FALSE)
        /\ UNCHANGED <<maxChunk, openCount, closedCount, failpoint, aborted,
                       opened, closed, nOpened, nClosed>>

-----------------------------------------------------------------------------
(* OpenedEngine.WriteRows: one step per backend WriteRows attempt *)

\* the range loop is entered; with no chunk the call returns nil at once
WriteRowsEnter(c, chunks) ==
    IF chunks = <<>> THEN Return(c, Nil, FALSE)
    ELSE [c EXCEPT !.pc = "write", !.chunks = chunks, !.ci = 1, !.i = 0]

\* WriteRowsStep with the bound tested one attempt late
WriteRowsStepOneMore(c, err) ==
    LET c1 == [c EXCEPT !.err = err]
    IN  CASE err.kind = "nil" ->
               IF c.ci = Len(c.chunks) THEN Return(c1, Nil, FALSE)
               ELSE [c1 EXCEPT !.ci = @ + 1, !.i = 0]
          [] IsRetryableError(err) ->
               IF c.i + 1 <= maxRetryTimes THEN [c1 EXCEPT !.i = @ + 1]
               ELSE Return([c1 EXCEPT !.i = @ + 1],
                           Annotatef(err, "write rows reach max retry and still failed",
                                     c.table, maxRetryTimes),
                           FALSE)
          [] OTHER -> Return(c1, err, FALSE)

\* WriteRowsStep with one retry counter for the whole call
WriteRowsStepSharedBudget(c, err) ==
    LET c1 == [c EXCEPT !.err = err]
    IN  CASE err.kind = "nil" ->
               IF c.ci = Len(c.chunks) THEN Return(c1, Nil, FALSE)
               ELSE [c1 EXCEPT !.ci = @ + 1]
          [] IsRetryableError(err) ->
               IF c.i + 1 < maxRetryTimes THEN [c1 EXCEPT !.i = @ + 1]
               ELSE Return([c1 EXCEPT !.i = @ + 1],
                           Annotatef(err, "write rows reach max retry and still failed",
                                     c.table, maxRetryTimes),
                           FALSE)
          [] OTHER -> Return(c1, err, FALSE)

\* WriteRowsStep retrying whatever the error is
WriteRowsStepRetryAll(c, err) ==
    LET c1 == [c EXCEPT !.err = err]
    IN  CASE err.kind = "nil" ->
               IF c.ci = Len(c.chunks) THEN Return(c1, Nil, FALSE)
               ELSE [c1 EXCEPT !.ci = @ + 1, !.i = 0]
          [] OTHER ->
               IF c.i + 1 < maxRetryTimes THEN [c1 EXCEPT !.i = @ + 1]
               ELSE Return([c1 EXCEPT !.i = @ + 1],
                           Annotatef(err, "write rows reach max retry and still failed",
                                     c.table, maxRetryTimes),
                           FALSE)

\* WriteRowsStep going on to the next chunk after a retryable error
WriteRowsStepSkipChunk(c, err) ==
    LET c1 == [c EXCEPT !.err = err]
    IN  CASE err.kind = "nil" \/ IsRetryableError(err) ->
               IF c.ci = Len(c.chunks) THEN Return(c1, Nil, FALSE)
               ELSE [c1 EXCEPT !.ci = @ + 1, !.i = 0]
          [] OTHER -> Return(c1, err, FALSE)

\* WriteRowsStep going on to the next chunk after a fatal error
WriteRowsStepKeepsWriting(c, err) ==
    LET c1 == [c EXCEPT !.err = err]
    IN  CASE err.kind = "nil" ->
               IF c.ci = Len(c.chunks) THEN Return(c1, Nil, FALSE)
               ELSE [c1 EXCEPT !.ci = @ + 1, !.i = 0]
          [] IsRetryableError(err) ->
               IF c.i + 1 < maxRetryTimes THEN [c1 EXCEPT !.i = @ + 1]
               ELSE Return([c1 EXCEPT !.i = @ + 1],
                           Annotatef(err, "write rows reach max retry and still failed",
                                     c.table, maxRetryTimes),
                           FALSE)
          [] OTHER ->
               IF c.ci = Len(c.chunks) THEN Return(c1, err, FALSE)
               ELSE [c1 EXCEPT !.ci = @ + 1, !.i = 0]

\* the switch on the attempt's error, and what the loops do next
WriteRowsStep(c, err) ==
    LET c1 == [c EXCEPT !.err = err]
    IN  CASE err.kind = "nil" ->
               IF c.ci = Len(c.chunks) THEN Return(c1, Nil, FALSE)
               ELSE [c1 EXCEPT !.ci = @ + 1, !.i = 0]
          [] IsRetryableError(err) ->
               IF c.i + 1 < maxRetryTimes THEN [c1 EXCEPT !.i = @ + 1]
               ELSE Return([c1 EXCEPT !.i = @ + 1],
                           Annotatef(err, "write rows reach max retry and still failed",
                                     c.table, maxRetryTimes),
                           FALSE)
          [] OTHER -> Return(c1, err, FALSE)

WriteRowsBegin(u, rows) ==
    /\ Idle
    /\ u \in opened
    /\ call' = WriteRowsEnter(Begin("WriteRows", u, TableOf(u)),
                              SplitIntoChunks(rows, maxChunk))
    /\ UNCHANGED <<bState, bRows, maxChunk, openCount, closedCount, failpoint,
                   aborted, opened, closed, nOpened, nClosed, everClosed>>

WriteRowsAttempt(res) ==
    LET r == call.chunks[call.ci]
    IN  /\ ~aborted
        /\ call.pc = "write"
        /\ BackendCall("WriteRows", call.u, r, res)
        /\ call' = WriteRowsStep(Traced(call, Tr("WriteRows", call.u, call.ci, r, res)),
                                 Err(res))
        /\ UNCHANGED <<maxChunk, openCount, closedCount, failpoint, aborted,
                       opened, closed, nOpened, nClosed>>

-----------------------------------------------------------------------------
(* ClosedEngine.Import and Backend.UnsafeImportAndReset: one step per      *)
(* backend ImportEngine attempt, per retry delay and per ResetEngine call   *)

ImportAndResetFinalCallClose == "CloseEngine"

\* the backend call UnsafeImportAndReset makes once Import has succeeded
ImportAndResetFinalCall == "ResetEngine"

\* ImportReturn with UnsafeImportAndReset going on to ResetEngine whatever
\* Import returned
ImportReturnAlwaysResets(c, err) ==
    IF c.op = "UnsafeImportAndReset"
    THEN [c EXCEPT !.pc = "reset"]
    ELSE Return(c, err, FALSE)

\* Import returns err: to the caller, or inside UnsafeImportAndReset
ImportReturn(c, err) ==
    IF c.op = "UnsafeImportAndReset" /\ err.kind = "nil"
    THEN [c EXCEPT !.pc = "reset"]
    ELSE Return(c, err, FALSE)

\* ImportStep returning only when the attempt succeeded
ImportStepRetryAll(c, err) ==
    LET c1 == [c EXCEPT !.err = err]
    IN  IF err.kind = "nil" THEN ImportReturn(c1, err)
        ELSE [c1 EXCEPT !.pc = "sleep"]

\* the test after the attempt
ImportStep(c, err) ==
    LET c1 == [c EXCEPT !.err = err]
    IN  IF ~IsRetryableError(err) THEN ImportReturn(c1, err)
        ELSE [c1 EXCEPT !.pc = "sleep"]

\* after the delay: the next turn of the loop, or the loop's end
ImportAfterSleep(c) ==
    LET c1 == [c EXCEPT !.sleeps = @ + 1, !.i = @ + 1]
    IN  IF c1.i < maxRetryTimes THEN [c1 EXCEPT !.pc = "import"]
        ELSE ImportReturn(c1, Annotatef(c.err, "import reach max retry and still failed",
                                        c.u, maxRetryTimes))

ImportBegin(u) ==
    /\ Idle
    /\ u \in closed
    /\ call' = [Begin("Import", u, "") EXCEPT !.pc = "import"]
    /\ UNCHANGED <<bState, bRows, maxChunk, openCount, closedCount, failpoint,
                   aborted, opened, closed, nOpened, nClosed, everClosed>>

UnsafeImportAndResetBegin(engineUUID) ==
    /\ Idle
    /\ call' = [Begin("UnsafeImportAndReset", engineUUID, "") EXCEPT !.pc = "import"]
    /\ UNCHANGED <<bState, bRows, maxChunk, openCount, closedCount, failpoint,
                   aborted, opened, closed, nOpened, nClosed, everClosed>>

ImportAttempt(res) ==
    /\ ~aborted
    /\ call.pc = "import"
    /\ BackendCall("ImportEngine", call.u, <<>>, res)
    /\ call' = ImportStep(Traced(call, Tr("ImportEngine", call.u, 0, <<>>, res)), Err(res))
    /\ UNCHANGED <<maxChunk, openCount, closedCount, failpoint, aborted,
                   opened, closed, nOpened, nClosed>>

ImportSleep ==
    /\ ~aborted
    /\ call.pc = "sleep"
    /\ call' = ImportAfterSleep(call)
    /\ UNCHANGED <<bState, bRows, maxChunk, openCount, closedCount, failpoint,
                   aborted, opened, closed, nOpened, nClosed, everClosed>>

ResetAttempt(res) ==
    /\ ~aborted
    /\ call.pc = "reset"
    /\ BackendCall(ImportAndResetFinalCall, call.u, <<>>, res)
    /\ call' = Return(Traced(call, Tr(ImportAndResetFinalCall, call.u, 0, <<>>, res)),
                      Err(res), FALSE)
    /\ UNCHANGED <<maxChunk, openCount, closedCount, failpoint, aborted,
                   opened, closed, nOpened, nClosed>>

-----------------------------------------------------------------------------------------------------------------------------------------------------
(* Any caller: every operation of the layer, in any order, on every engine  *)

otherVars == <<wf, hist, fileSizes, quotaRes, ident, cancelled, gor, peak>>

Next ==
    \/ \E t \in Tables, e \in EngineIDs, res \in ResKinds :
          openCount < AnyCount /\ OpenEngine(t, e, res) /\ UNCHANGED otherVars
    \/ \E u \in UUIDs, res \in ResKinds :
          closedCount < AnyCount /\ Close(u, res) /\ UNCHANGED otherVars
    \/ OpenCounterInc /\ UNCHANGED otherVars
    \/ CloseCounterInc /\ UNCHANGED otherVars
    \/ \E t \in Tables, e \in EngineIDs, res \in ResKinds :
          UnsafeCloseEngine(t, e, res) /\ UNCHANGED otherVars
    \/ \E u \in UUIDs, res \in ResKinds : Cleanup(u, res) /\ UNCHANGED otherVars
    \/ \E u \in UUIDs, rows \in RowsInputs(AnyRows) :
          /\ Len(bRows[u]) + Len(rows) <= AnyStored
          /\ WriteRowsBegin(u, rows) /\ UNCHANGED otherVars
    \/ \E res \in ResKinds : WriteRowsAttempt(res) /\ UNCHANGED otherVars
    \/ \E u \in UUIDs : ImportBegin(u) /\ UNCHANGED otherVars
    \/ \E u \in UUIDs : UnsafeImportAndResetBegin(u) /\ UNCHANGED otherVars
    \/ \E res \in ResKinds : ImportAttempt(res) /\ UNCHANGED otherVars
    \/ ImportSleep /\ UNCHANGED otherVars
    \/ \E res \in ResKinds : ResetAttempt(res) /\ UNCHANGED otherVars

Spec == Init /\ [][Next]_vars

-----------------------------------------------------------------------------
(* The retry loops: one engine is opened, written to in calls of up to      *)
(* MaxRows rows, closed and imported                                        *)

RetryTable == "t"

RetryEngine == MakeUUID(RetryTable, 0)[2]

NextRetry ==
    \/ \E res \in ResKinds :
          openCount < 1 /\ OpenEngine(RetryTable, 0, res) /\ UNCHANGED otherVars
    \/ \E rows \in RowsInputs(MaxRows) :
          /\ Len(bRows[RetryEngine]) + Len(rows) <= MaxStored
          /\ WriteRowsBegin(RetryEngine, rows) /\ UNCHANGED otherVars
    \/ \E res \in ResKinds : WriteRowsAttempt(res) /\ UNCHANGED otherVars
    \/ \E res \in ResKinds :
          closedCount < 1 /\ Close(RetryEngine, res) /\ UNCHANGED otherVars
    \/ OpenCounterInc /\ UNCHANGED otherVars
    \/ CloseCounterInc /\ UNCHANGED otherVars
    \/ ImportBegin(RetryEngine) /\ UNCHANGED otherVars
    \/ \E res \in ResKinds : ImportAttempt(res) /\ UNCHANGED otherVars
    \/ ImportSleep /\ UNCHANGED otherVars

SpecRetry == Init /\ [][NextRetry]_vars

-----------------------------------------------------------------------------
(* The usual workflow on one engine: OpenEngine, WriteRows, Close, Import,  *)
(* Cleanup, each started when the one before returned nil; the backend      *)
(* records every call it gets                                               *)

WorkflowUUID == MakeUUID(wf.table, wf.id)[2]

\* where the workflow stands once the layer call c has moved
WorkflowAfter(c) ==
    IF c.pc # "done" THEN wf
    ELSE IF c.ret.kind # "nil" THEN [wf EXCEPT !.at = "failed"]
    ELSE [wf EXCEPT !.at = CASE c.op = "OpenEngine" -> "opened"
                            [] c.op = "WriteRows" -> "written"
                            [] c.op = "Close" -> "closed"
                            [] c.op = "Import" -> "imported"
                            [] c.op = "Cleanup" -> "done"]

\* the backend calls the step from layer call c to layer call d has made
Recorded(c, d) ==
    IF c.pc = "done" THEN d.trace
    ELSE SubSeq(d.trace, Len(c.trace) + 1, Len(d.trace))

WorkflowStep == wf' = WorkflowAfter(call') /\ hist' = hist \o Recorded(call, call')

InitWorkflow ==
    /\ InitLifecycle
    /\ maxChunk \in 1..MaxChunk
    /\ failpoint = FailpointOff
    /\ wf \in [at : {"start"}, table : Tables, id : EngineIDs, rows : RowsInputs(MaxRows)]
    /\ hist = <<>>
    /\ fileSizes = <<>>
    /\ quotaRes = NoQuotaRes
    /\ InitSide

NextWorkflow ==
    \/ \E res \in ResKinds :
          /\ wf.at = "start"
          /\ OpenEngine(wf.table, wf.id, res)
          /\ WorkflowStep /\ UNCHANGED <<fileSizes, quotaRes, sideVars>>
    \/ OpenCounterInc /\ WorkflowStep /\ UNCHANGED <<fileSizes, quotaRes, sideVars>>
    \/ CloseCounterInc /\ WorkflowStep /\ UNCHANGED <<fileSizes, quotaRes, sideVars>>
    \/ /\ wf.at = "opened"
       /\ WriteRowsBegin(WorkflowUUID, wf.rows)
       /\ WorkflowStep /\ UNCHANGED <<fileSizes, quotaRes, sideVars>>
    \/ \E res \in ResKinds :
          WriteRowsAttempt(res) /\ WorkflowStep /\ UNCHANGED <<fileSizes, quotaRes, sideVars>>
    \/ \E res \in ResKinds :
          /\ wf.at = "written"
          /\ Close(WorkflowUUID, res)
          /\ WorkflowStep /\ UNCHANGED <<fileSizes, quotaRes, sideVars>>
    \/ /\ wf.at = "closed"
       /\ ImportBegin(WorkflowUUID)
       /\ WorkflowStep /\ UNCHANGED <<fileSizes, quotaRes, sideVars>>
    \/ \E res \in ResKinds :
          ImportAttempt(res) /\ WorkflowStep /\ UNCHANGED <<fileSizes, quotaRes, sideVars>>
    \/ ImportSleep /\ WorkflowStep /\ UNCHANGED <<fileSizes, quotaRes, sideVars>>
    \/ \E res \in ResKinds :
          /\ wf.at = "imported"
          /\ Cleanup(WorkflowUUID, res)
          /\ WorkflowStep /\ UNCHANGED <<fileSizes, quotaRes, sideVars>>

SpecWorkflow == InitWorkflow /\ [][NextWorkflow]_vars

-----------------------------------------------------------------------------
(* Backend.CheckDiskQuota *)

QuotaEngines == {"A", "B", "C"}

SizeVals == {0, 5, 10, 30}

Quotas == {0, 5, 10, 15, 20, 30, 40, 45, 60}

EngineFileSize == [UUID : QuotaEngines, Size : SizeVals, IsImporting : BOOLEAN]

\* the lists EngineFileSizes() can return: each engine at most once
FileSizesInputs ==
    UNION {{s \in [1..n -> EngineFileSize] :
               \A i, j \in 1..n : i # j => s[i].UUID # s[j].UUID} :
           n \in 0..Cardinality(QuotaEngines)}

lessBySizeOnly(a, b) == a.Size < b.Size

lessImportingLast(a, b) ==
    IF a.IsImporting # b.IsImporting THEN b.IsImporting
    ELSE a.Size < b.Size

\* the comparison handed to sort.Slice
less(a, b) ==
    IF a.IsImporting # b.IsImporting THEN a.IsImporting
    ELSE a.Size < b.Size

IsSortedBy(s) == \A i, j \in 1..Len(s) : i < j => ~less(s[j], s[i])

Orderings(n) ==
    {p \in [1..n -> 1..n] : \A i, j \in 1..n : i # j => p[i] # p[j]}

\* sort.Slice is not stable: any arrangement of the list that less orders
SortSlice(sizes) ==
    LET arrangements == {[i \in 1..Len(sizes) |-> sizes[p[i]]] : p \in Orderings(Len(sizes))}
    IN  {s \in arrangements : IsSortedBy(s)}

\* OverQuota met already when the running total reaches the quota
OverQuotaAtQuota(totalSize, size, quota) == totalSize >= quota

\* the test that makes an engine an excess engine
OverQuota(totalSize, size, quota) == totalSize > quota

\* the range loop over the sorted list, from the running total so far
RECURSIVE Accumulate(_, _, _)
Accumulate(sizes, quota, acc) ==
    IF sizes = <<>> THEN acc
    ELSE LET size == Head(sizes)
             totalSize == acc.totalSize + size.Size
             next ==
                 IF OverQuota(totalSize, size, quota)
                 THEN IF size.IsImporting
                      THEN [acc EXCEPT !.totalSize = totalSize,
                                       !.inProgressLargeEngines = @ + 1]
                      ELSE [acc EXCEPT !.totalSize = totalSize,
                                       !.largeEngines = Append(@, size.UUID)]
                 ELSE [acc EXCEPT !.totalSize = totalSize]
         IN  Accumulate(Tail(sizes), quota, next)

CheckDiskQuota(quota) ==
    /\ \E sorted \in SortSlice(fileSizes) :
          quotaRes' = Accumulate(sorted, quota,
                                 [NoQuotaRes EXCEPT !.quota = quota, !.order = sorted,
                                                    !.done = TRUE])
    /\ UNCHANGED <<fileSizes, wf, hist, sideVars>>
    /\ UNCHANGED lifecycleVars

InitQuota ==
    /\ InitLifecycle
    /\ maxChunk = MaxChunk
    /\ failpoint = FailpointOff
    /\ wf = NoWorkflow
    /\ hist = <<>>
    /\ fileSizes \in FileSizesInputs
    /\ quotaRes = NoQuotaRes
    /\ InitSide

NextQuota == \E quota \in Quotas : CheckDiskQuota(quota)

SpecQuota == InitQuota /\ [][NextQuota]_vars

-----------------------------------------------------------------------------
(* Properties *)

\* the positions of the trace of layer call c that hold a call of this kind
Calls(c, kind) == {p \in DOMAIN c.trace : c.trace[p].k = kind}

\* the positions that hold an attempt to write chunk j, and those that failed
\* with a retryable error
AttemptsOf(c, j) == {p \in Calls(c, "WriteRows") : c.trace[p].c = j}

RetryableOf(c, j) == {p \in AttemptsOf(c, j) : c.trace[p].r = "retryable"}

IsAcceptedWrite(entry) == entry.k = "WriteRows" /\ entry.r = "nil"

\* the chunks the backend accepted during layer call c, in the order it got them
AcceptedChunks(c) ==
    LET ok == SelectSeq(c.trace, IsAcceptedWrite)
    IN  [p \in 1..Len(ok) |-> ok[p].arg]

\* C1: in every step of an UnsafeImportAndReset call, for any engine and any
\* outcome of the backend, the calls it has made to the backend include no
\* CloseEngine and an engine that was open stays open; when it returns nil on
\* an engine that was open, the backend accepts a WriteRows on that engine.
C1_ImportAndResetNeverCloses ==
    [][call'.op = "UnsafeImportAndReset" =>
         /\ Calls(call', "CloseEngine") = {}
         /\ bState[call'.u] = "open" =>
              /\ bState'[call'.u] = "open"
              /\ (call'.pc = "done" /\ call'.ret.kind = "nil") =>
                    Accepts(bState', "WriteRows", call'.u, "nil")]_vars

\* C1 witness: UnsafeImportAndReset has imported and reset an engine that holds
\* an OpenedEngine handle and returned nil, and the engine is open.
C1_Witness ==
    /\ call.op = "UnsafeImportAndReset" /\ call.pc = "done" /\ call.ret.kind = "nil"
    /\ call.u \in opened /\ bState[call.u] = "open"
    /\ Calls(call, "ImportEngine") # {} /\ Calls(call, "ResetEngine") # {}
    /\ \E p \in Calls(call, "ImportEngine") : call.trace[p].r = "retryable"

\* C2: one WriteRows call makes at most 3 backend WriteRows attempts for each
\* chunk, one Import call makes at most 3 backend ImportEngine attempts, and
\* once 3 attempts (of one chunk, or of the import) have failed with a
\* retryable error the call makes no further attempt and returns an annotated
\* error, not nil.
C2_RetriesBoundedNotSwallowed ==
    /\ call.op = "WriteRows" =>
          \A j \in 1..Len(call.chunks) :
             /\ Cardinality(AttemptsOf(call, j)) <= 3
             /\ Cardinality(RetryableOf(call, j)) = 3 =>
                   /\ call.pc = "done"
                   /\ call.ret.kind # "nil" /\ call.ret.ann # ""
                   /\ call.ret.who = call.table /\ call.ret.n = 3
    /\ call.op = "Import" =>
          /\ Cardinality(Calls(call, "ImportEngine")) <= 3
          /\ call.pc = "done" => Len(call.trace) >= 1
          /\ (\E p \in DOMAIN call.trace : p >= 3 /\ call.trace[p].r = "retryable") =>
                /\ call.pc \in {"sleep", "done"}
                /\ call.pc = "done" =>
                      /\ call.ret.kind # "nil" /\ call.ret.ann # ""
                      /\ call.ret.who = call.u /\ call.ret.n = 3

\* C2 witness: a WriteRows call of two chunks that spent 3 attempts on the
\* first chunk, the third accepted, and then failed the second chunk 3 times
\* with a retryable error and returned an error.
C2_Witness ==
    /\ call.op = "WriteRows" /\ call.pc = "done"
    /\ Len(call.chunks) >= 2
    /\ Cardinality(AttemptsOf(call, 1)) = 3
    /\ Cardinality(RetryableOf(call, 2)) = 3
    /\ call.ret.kind = "retryable" /\ call.ret.ann # ""

\* C3: a WriteRows call has returned, and the backend failed no chunk with a
\* fatal error and no chunk 3 times with a retryable error (each chunk was
\* failed N < 3 times, then accepted): the call returned nil and the chunks the
\* backend accepted are the chunks of the input, each once, in split order.
C3_RetriedChunksDeliveredOnce ==
    (/\ call.op = "WriteRows" /\ call.pc = "done"
     /\ \A p \in DOMAIN call.trace : call.trace[p].r # "fatal"
     /\ \A j \in 1..Len(call.chunks) : Cardinality(RetryableOf(call, j)) < 3)
    => /\ call.ret = Nil
       /\ AcceptedChunks(call) = call.chunks
       /\ \A j \in 1..Len(call.chunks) :
             Cardinality({p \in AttemptsOf(call, j) : call.trace[p].r = "nil"}) = 1

\* C3 witness: a WriteRows call returned nil after the backend failed the first
\* chunk twice and the second chunk once with a retryable error.
C3_Witness ==
    /\ call.op = "WriteRows" /\ call.pc = "done" /\ call.ret = Nil
    /\ Len(call.chunks) >= 2
    /\ Cardinality(RetryableOf(call, 1)) = 2
    /\ Cardinality(RetryableOf(call, 2)) = 1
    /\ bRows[call.u] = Concat(call.chunks)

\* C4: in a WriteRows or Import call, an attempt the backend fails with a
\* non-retryable error is the last backend call of the layer call (no retry,
\* no further chunk), the call has returned and returned that error itself,
\* unannotated, and Import has slept only once after each earlier, retryable
\* failure: when the first attempt of the chunk or import is the one that
\* fails, it is that chunk's or import's only attempt and no delay was slept.
C4_FatalErrorFailsAtOnce ==
    call.op \in {"WriteRows", "Import"} =>
       \A p \in DOMAIN call.trace :
          call.trace[p].r = "fatal" =>
             /\ p = Len(call.trace)
             /\ call.pc = "done"
             /\ call.ret = Err("fatal")
             /\ call.op = "Import" => call.sleeps = p - 1
             /\ call.op = "WriteRows" =>
                   /\ call.sleeps = 0
                   /\ call.trace[p].c = call.ci
                   /\ \A q \in DOMAIN call.trace : call.trace[q].c <= call.ci
                   /\ (p = 1 \/ call.trace[p - 1].r = "nil") =>
                         Cardinality(AttemptsOf(call, call.ci)) = 1

\* C4 witness: a WriteRows call of several chunks whose first chunk was
\* accepted and whose second chunk failed with a fatal error on its first
\* attempt; the call returned that error.
C4_Witness ==
    /\ call.op = "WriteRows" /\ call.pc = "done" /\ call.ret = Err("fatal")
    /\ Len(call.chunks) >= 3
    /\ call.ci = 2
    /\ Cardinality(AttemptsOf(call, 2)) = 1

PhaseOf(kind) ==
    CASE kind = "OpenEngine" -> 1
      [] kind = "WriteRows" -> 2
      [] kind = "CloseEngine" -> 3
      [] kind = "ImportEngine" -> 4
      [] kind = "CleanupEngine" -> 5
      [] OTHER -> 0

HistCalls(kind) == {p \in DOMAIN hist : hist[p].k = kind}

HistAccepted ==
    LET ok == SelectSeq(hist, IsAcceptedWrite)
    IN  Concat([p \in 1..Len(ok) |-> ok[p].arg])

\* C5: when the usual workflow OpenEngine, WriteRows(R), Close, Import, Cleanup
\* has run to its end on one (table, engineID), the backend has recorded one
\* OpenEngine, then the WriteRows attempts, then one CloseEngine, then the
\* ImportEngine attempts, then one CleanupEngine, all on the UUID of that
\* engine, and the rows it accepted and holds are exactly R, in order.
C5_RoundTrip ==
    wf.at = "done" =>
       /\ \A p \in DOMAIN hist : hist[p].u = WorkflowUUID /\ PhaseOf(hist[p].k) > 0
       /\ \A p, q \in DOMAIN hist : p < q => PhaseOf(hist[p].k) <= PhaseOf(hist[q].k)
       /\ Cardinality(HistCalls("OpenEngine")) = 1
       /\ Cardinality(HistCalls("CloseEngine")) = 1
       /\ Cardinality(HistCalls("CleanupEngine")) = 1
       /\ Cardinality(HistCalls("ImportEngine")) >= 1
       /\ hist[Len(hist)].r = "nil"
       /\ HistAccepted = wf.rows
       /\ bRows[WorkflowUUID] = wf.rows

\* C5 witness: the workflow has run to its end with rows that made several
\* chunks, a WriteRows attempt and an ImportEngine attempt having been retried.
C5_Witness ==
    /\ wf.at = "done"
    /\ Len(wf.rows) >= 3
    /\ Cardinality({p \in HistCalls("WriteRows") : hist[p].r = "nil"}) >= 2
    /\ \E p \in HistCalls("WriteRows") : hist[p].r = "retryable"
    /\ \E p \in HistCalls("ImportEngine") : hist[p].r = "retryable"
    /\ bRows[WorkflowUUID] = wf.rows

AscendingWithinGroups(order) ==
    \A i, j \in DOMAIN order :
       (i < j /\ order[i].IsImporting = order[j].IsImporting) => order[i].Size <= order[j].Size

NonImportingFirst(order) ==
    \A i, j \in DOMAIN order : i < j => (~order[i].IsImporting \/ order[j].IsImporting)

ImportingFirst(order) ==
    \A i, j \in DOMAIN order : i < j => (order[i].IsImporting \/ ~order[j].IsImporting)

SameEngines(s, t) ==
    Len(s) = Len(t) /\ {s[i] : i \in DOMAIN s} = {t[i] : i \in DOMAIN t}

\* C6 as stated: CheckDiskQuota accumulates the sizes in an order where every
\* non-importing engine comes before every importing engine, with ascending
\* size inside each of the two groups.
C6_NonImportingFirst ==
    quotaRes.done =>
       NonImportingFirst(quotaRes.order) /\ AscendingWithinGroups(quotaRes.order)

\* C6 amended: CheckDiskQuota accumulates the sizes of all the engines in an
\* order where every importing engine comes before every non-importing engine,
\* regardless of size, with ascending size inside each of the two groups.
C6_ImportingFirst ==
    quotaRes.done =>
       /\ SameEngines(quotaRes.order, fileSizes)
       /\ ImportingFirst(quotaRes.order)
       /\ AscendingWithinGroups(quotaRes.order)

\* C6 witness: a check whose order puts an importing engine before a smaller
\* engine that is not importing.
C6_Witness ==
    /\ quotaRes.done
    /\ \E i, j \in DOMAIN quotaRes.order :
          /\ i < j
          /\ quotaRes.order[i].IsImporting /\ ~quotaRes.order[j].IsImporting
          /\ quotaRes.order[i].Size > quotaRes.order[j].Size

C7_Sizes ==
    << [UUID |-> "A", Size |-> 10, IsImporting |-> FALSE],
       [UUID |-> "B", Size |-> 30, IsImporting |-> FALSE],
       [UUID |-> "C", Size |-> 5, IsImporting |-> TRUE] >>

\* the backend reports these three engines, in any order, and the check with
\* quota 20 has run
C7_Case == SameEngines(fileSizes, C7_Sizes) /\ quotaRes.done /\ quotaRes.quota = 20

\* C7 as stated: CheckDiskQuota(20) on {A: 10}, {B: 30}, {C: 5, importing}
\* returns largeEngines = [B], inProgressLargeEngines = 1, totalSize = 45.
C7_InProgressOne ==
    C7_Case =>
       /\ quotaRes.largeEngines = <<"B">>
       /\ quotaRes.inProgressLargeEngines = 1
       /\ quotaRes.totalSize = 45

\* C7 amended: CheckDiskQuota(20) on {A: 10}, {B: 30}, {C: 5, importing}
\* returns largeEngines = [B], inProgressLargeEngines = 0, totalSize = 45.
C7_InProgressZero ==
    C7_Case =>
       /\ quotaRes.largeEngines = <<"B">>
       /\ quotaRes.inProgressLargeEngines = 0
       /\ quotaRes.totalSize = 45

\* C7 witness: that check has run, and C was the first engine it added.
C7_Witness == C7_Case /\ quotaRes.order[1].UUID = "C"

RECURSIVE SumSizes(_)
SumSizes(sizes) == IF sizes = <<>> THEN 0 ELSE Head(sizes).Size + SumSizes(Tail(sizes))

IsLarge(size) == \E p \in DOMAIN quotaRes.largeEngines : quotaRes.largeEngines[p] = size.UUID

IsImportingSize(size) == size.IsImporting

\* C8 as stated: when the total size exceeds the quota, emptying exactly the
\* engines of largeEngines brings the total down to at most the quota.
C8_LargeEnginesSuffice ==
    (quotaRes.done /\ quotaRes.totalSize > quotaRes.quota) =>
       quotaRes.totalSize - SumSizes(SelectSeq(fileSizes, IsLarge)) <= quotaRes.quota

\* C9 as stated: no backend WriteRows is issued for an engine on which a close
\* has succeeded, and outside UnsafeImportAndReset no backend ImportEngine is
\* issued for an engine on which no close has succeeded.
C9_NoWriteAfterCloseNoImportBefore ==
    /\ \A p \in Calls(call, "WriteRows") : call.trace[p].u \notin everClosed
    /\ call.op # "UnsafeImportAndReset" =>
          \A p \in Calls(call, "ImportEngine") : call.trace[p].u \in everClosed

\* C9 amended: outside UnsafeImportAndReset, no backend ImportEngine is issued
\* for an engine before a close (OpenedEngine.Close or UnsafeCloseEngine) has
\* succeeded on it.
C9_NoImportBeforeClose ==
    call.op # "UnsafeImportAndReset" =>
       \A p \in Calls(call, "ImportEngine") : call.trace[p].u \in everClosed

\* C9 witness: Import has called the backend's ImportEngine for an engine that
\* Close has closed.
C9_Witness ==
    /\ call.op = "Import" /\ Calls(call, "ImportEngine") # {}
    /\ call.u \in everClosed /\ call.u \in opened /\ bState[call.u] = "closed"
    /\ nClosed >= 1

-----------------------------------------------------------------------------
(* The restore test: the failpoint is set to return(4), engines are opened  *)
(* and closed                                                               *)

RestoreCeiling == 4

InitRestore ==
    /\ InitLifecycle
    /\ InitRest
    /\ maxChunk = MaxChunk
    /\ failpoint = RestoreCeiling

NextRestore ==
    \/ \E t \in Tables, e \in EngineIDs, res \in ResKinds :
          /\ openCount < RestoreCeiling + GuardSlack
          /\ OpenEngine(t, e, res) /\ UNCHANGED otherVars
    \/ \E u \in UUIDs, res \in ResKinds :
          /\ closedCount < RestoreCeiling + GuardSlack
          /\ Close(u, res) /\ UNCHANGED otherVars
    \/ OpenCounterInc /\ UNCHANGED otherVars
    \/ GuardFirstRead /\ UNCHANGED otherVars
    \/ GuardSecondRead /\ UNCHANGED otherVars
    \/ CloseCounterInc /\ UNCHANGED otherVars
    \/ \E t \in Tables, e \in EngineIDs, res \in ResKinds :
          UnsafeCloseEngine(t, e, res) /\ UNCHANGED otherVars

SpecRestore == InitRestore /\ [][NextRestore]_vars

\* C11 as stated: with the failpoint set to 4, an OpenEngine call whose
\* backend OpenEngine succeeded panics whenever the successful opens (this one
\* included) minus the successful Close calls are 4 or more.
C11_AbortsAtCeiling ==
    (/\ call.op = "OpenEngine" /\ call.pc = "done" /\ call.trace[1].r = "nil"
     /\ nOpened - nClosed >= 4) => aborted

-----------------------------------------------------------------------------
(* Engine identity across process restarts: engines of several tables are  *)
(* opened by OpenEngine and closed by UnsafeCloseEngine, the process is     *)
(* restarted, and every identity handed to the backend is logged            *)

\* how many times the process is restarted
MaxRestarts == 1

\* SpecIdentity: cap on the open counter of one process run
IdOpens == 1

\* the (tableName, engineID) pairs of the engines: two of one table, and one
\* of another table whose name and ID are made of the same characters
IdPairs == {<<"t", 1>>, <<"t", 11>>, <<"t1", 1>>}

IdUUIDs == {MakeUUID(p[1], p[2])[2] : p \in IdPairs}

\* the identity the layer call c handed to the backend, logged with the
\* arguments of the call
IdentLogged(c, tableName, engineID) ==
    [ident EXCEPT !.log = @ \cup {[t |-> tableName, e |-> engineID,
                                   u |-> c.trace[1].u]}]

\* the process stops and a new one starts: handles, counters and the call in
\* progress are gone, the backend keeps its engines
Restart ==
    /\ ident.run < MaxRestarts
    /\ ident' = [ident EXCEPT !.run = @ + 1, !.prior = opened]
    /\ call' = NoCall
    /\ openCount' = 0 /\ closedCount' = 0
    /\ nOpened' = 0 /\ nClosed' = 0
    /\ aborted' = FALSE
    /\ opened' = {} /\ closed' = {}
    /\ UNCHANGED <<bState, bRows, maxChunk, failpoint, everClosed>>

InitIdentity ==
    /\ bState = [u \in IdUUIDs |-> "none"]
    /\ bRows = [u \in IdUUIDs |-> <<>>]
    /\ openCount = 0 /\ closedCount = 0
    /\ aborted = FALSE
    /\ opened = {} /\ closed = {}
    /\ call = NoCall
    /\ nOpened = 0 /\ nClosed = 0
    /\ everClosed = {}
    /\ maxChunk = MaxChunk
    /\ failpoint = FailpointOff
    /\ InitRest

NextIdentity ==
    \/ \E p \in IdPairs, res \in ResKinds :
          /\ openCount < IdOpens
          /\ OpenEngine(p[1], p[2], res)
          /\ ident' = IdentLogged(call', p[1], p[2])
          /\ UNCHANGED <<wf, hist, fileSizes, quotaRes, cancelled, gor, peak>>
    \/ OpenCounterInc /\ UNCHANGED otherVars
    \/ \E p \in IdPairs, res \in ResKinds :
          /\ UnsafeCloseEngine(p[1], p[2], res)
          /\ ident' = IdentLogged(call', p[1], p[2])
          /\ UNCHANGED <<wf, hist, fileSizes, quotaRes, cancelled, gor, peak>>
    \/ /\ Restart
       /\ UNCHANGED <<wf, hist, fileSizes, quotaRes, cancelled, gor, peak>>

SpecIdentity == InitIdentity /\ [][NextIdentity]_vars

\* C12: of all the identities OpenEngine and UnsafeCloseEngine have handed to
\* the backend, in any process run and after any history, two for the same
\* (tableName, engineID) are the same identity, whichever of the two
\* operations made the call, and two for different (tableName, engineID) pairs
\* are different identities.
C12_IdentityOfPairOnly ==
    \A x, y \in ident.log : (x.t = y.t /\ x.e = y.e) <=> x.u = y.u

\* C12 witness: after a restart, UnsafeCloseEngine has closed the engine that
\* OpenEngine opened in the earlier run, and another engine whose table name
\* and engine ID are made of the same digits has been opened too.
C12_Witness ==
    /\ ident.run = 1
    /\ call.op = "UnsafeCloseEngine" /\ call.ret.kind = "nil"
    /\ call.u \in ident.prior /\ bState[call.u] = "closed"
    /\ \E x, y \in ident.log :
          /\ x.t = "t" /\ x.e = 11 /\ y.t = "t1" /\ y.e = 1
          /\ bState[x.u] # "none" /\ bState[y.u] # "none"

\* C13 as stated: each engine is added at most once to the open counter and at
\* most once to the closed counter, so the open counter is at most the number
\* of engines the backend has opened, the closed counter at most the number of
\* engines the backend has closed, and the closed counter never exceeds the
\* open counter.
C13_NoDoubleCounting ==
    /\ openCount <= Cardinality({u \in UUIDs : bState[u] # "none"})
    /\ closedCount <= Cardinality(everClosed)
    /\ closedCount <= openCount

-----------------------------------------------------------------------------
(* Cancellation of Import: engines are opened and closed, Import is called  *)
(* with a context that the caller may cancel while an attempt is in flight  *)
(* or while Import sleeps                                                   *)

\* the context is cancelled now: what Import has done so far is noted
CancelledNow(c) ==
    [on |-> TRUE, attempts |-> Cardinality(Calls(c, "ImportEngine")),
     sleeps |-> c.sleeps]

\* what the backend answers to a call made with this context: once it is
\* cancelled, context.Canceled, which is not retryable
CtxAllows(res) == cancelled.on => res = "fatal"

\* the context is cancelled during time.Sleep(RetryImportDelay())
CancelDuringDelay ==
    /\ ~aborted
    /\ ~cancelled.on
    /\ call.op = "Import" /\ call.pc = "sleep"
    /\ cancelled' = CancelledNow(call)
    /\ UNCHANGED lifecycleVars

\* the context is cancelled while the backend's ImportEngine is in flight:
\* the backend gives up with an error
ImportAttemptCancelled(res) ==
    /\ ~cancelled.on
    /\ call.op = "Import"
    /\ res # "nil"
    /\ ImportAttempt(res)
    /\ cancelled' = CancelledNow(Traced(call, Tr("ImportEngine", call.u, 0, <<>>, res)))

NextCancel ==
    \/ \E t \in Tables, e \in EngineIDs, res \in ResKinds :
          /\ openCount < AnyCount
          /\ OpenEngine(t, e, res) /\ UNCHANGED otherVars
    \/ \E u \in UUIDs, res \in ResKinds :
          /\ closedCount < AnyCount
          /\ Close(u, res) /\ UNCHANGED otherVars
    \/ OpenCounterInc /\ UNCHANGED otherVars
    \/ CloseCounterInc /\ UNCHANGED otherVars
    \/ \E u \in UUIDs :
          /\ ImportBegin(u)
          /\ cancelled' = NoCancel
          /\ UNCHANGED <<wf, hist, fileSizes, quotaRes, ident, gor, peak>>
    \/ \E res \in ResKinds :
          /\ CtxAllows(res)
          /\ ImportAttempt(res) /\ UNCHANGED otherVars
    \/ \E res \in ResKinds :
          /\ ImportAttemptCancelled(res)
          /\ UNCHANGED <<wf, hist, fileSizes, quotaRes, ident, gor, peak>>
    \/ /\ CancelDuringDelay
       /\ UNCHANGED <<wf, hist, fileSizes, quotaRes, ident, gor, peak>>
    \/ ImportSleep /\ UNCHANGED otherVars

SpecCancel == Init /\ [][NextCancel]_vars

\* C14 as stated: once the context of an Import call is cancelled, during a
\* backend attempt or during the retry delay, Import sleeps no delay to its
\* end, starts no further backend ImportEngine attempt, and does not return
\* nil.
C14_CancelStopsImport ==
    (cancelled.on /\ call.op = "Import") =>
       /\ call.sleeps = cancelled.sleeps
       /\ Cardinality(Calls(call, "ImportEngine")) = cancelled.attempts
       /\ call.pc = "done" => call.ret.kind # "nil"

\* the chunks the backend has accepted during WriteRows call c
AcceptedIndexes(c) ==
    {c.trace[p].c : p \in {q \in Calls(c, "WriteRows") : c.trace[q].r = "nil"}}

\* C15: during one WriteRows call every backend attempt writes the chunk of
\* its index in split order, the attempts go through the chunks in ascending
\* order, an attempt for a chunk after the first comes only after the chunk
\* before it was accepted, and when the call has failed on chunk k exactly the
\* chunks before k have been accepted and no chunk after k has been attempted.
C15_ChunksInSplitOrder ==
    call.op = "WriteRows" =>
       /\ \A p \in Calls(call, "WriteRows") :
             /\ call.trace[p].arg = call.chunks[call.trace[p].c]
             /\ \A q \in Calls(call, "WriteRows") :
                   q < p => call.trace[q].c <= call.trace[p].c
             /\ call.trace[p].c > 1 =>
                   \E q \in Calls(call, "WriteRows") :
                      /\ q < p
                      /\ call.trace[q].c = call.trace[p].c - 1
                      /\ call.trace[q].r = "nil"
       /\ (call.pc = "done" /\ call.ret.kind # "nil") =>
             LET k == call.trace[Len(call.trace)].c
             IN  /\ AcceptedIndexes(call) = 1..(k - 1)
                 /\ \A p \in Calls(call, "WriteRows") : call.trace[p].c <= k

\* C15 witness: a WriteRows call of three chunks has failed on the second
\* chunk after three retryable failures, the first chunk having been accepted
\* on a retry; the third chunk was never attempted.
C15_Witness ==
    /\ call.op = "WriteRows" /\ call.pc = "done" /\ call.ret.kind = "retryable"
    /\ Len(call.chunks) = 3
    /\ call.trace[Len(call.trace)].c = 2
    /\ Cardinality(RetryableOf(call, 2)) = 3
    /\ Cardinality(AttemptsOf(call, 1)) = 2
    /\ AttemptsOf(call, 3) = {}

\* C16 as stated: every delay an Import call has slept is followed by another
\* backend ImportEngine attempt, so once the call has returned after k
\* attempts it has slept k-1 times.
C16_DelayOnlyBetweenAttempts ==
    (call.op = "Import" /\ call.pc = "done") =>
       call.sleeps = Cardinality(Calls(call, "ImportEngine")) - 1

\* the running total of the last CheckDiskQuota call once it has added the
\* engine at position i of its order of accumulation
RunningTotal(i) == SumSizes(SubSeq(quotaRes.order, 1, i))

\* the positions whose engine takes the running total above the quota
ExcessPositions == {i \in DOMAIN quotaRes.order : RunningTotal(i) > quotaRes.quota}

\* C18: for every list of engine sizes and every quota, the engines
\* CheckDiskQuota lists in largeEngines are, each once, the non-importing
\* engines that take the running total above the quota, inProgressLargeEngines
\* is the number of importing engines that do, no importing engine is listed,
\* and when the total is at most the quota nothing is listed or counted.
C18_ExcessIffRunningTotalAbove ==
    quotaRes.done =>
       LET listed == {i \in ExcessPositions : ~quotaRes.order[i].IsImporting}
           counted == {i \in ExcessPositions : quotaRes.order[i].IsImporting}
       IN  /\ SameEngines(quotaRes.order, fileSizes)
           /\ {quotaRes.largeEngines[p] : p \in DOMAIN quotaRes.largeEngines}
                 = {quotaRes.order[i].UUID : i \in listed}
           /\ Len(quotaRes.largeEngines) = Cardinality(listed)
           /\ quotaRes.inProgressLargeEngines = Cardinality(counted)
           /\ \A i \in DOMAIN fileSizes :
                 fileSizes[i].IsImporting => ~IsLarge(fileSizes[i])
           /\ SumSizes(fileSizes) <= quotaRes.quota =>
                 quotaRes.largeEngines = <<>> /\ quotaRes.inProgressLargeEngines = 0

\* C18 witness: of three engines, the first takes the running total exactly
\* to the quota and is not reported, an importing engine takes it above and is
\* counted, and a non-importing engine after it is listed.
C18_Witness ==
    /\ quotaRes.done /\ Len(quotaRes.order) = 3
    /\ RunningTotal(1) = quotaRes.quota /\ quotaRes.order[1].Size > 0
    /\ quotaRes.inProgressLargeEngines = 1
    /\ Len(quotaRes.largeEngines) = 1

\* C19: in every step of an UnsafeImportAndReset call, a backend ResetEngine
\* is the call's last backend call and comes right after an ImportEngine
\* attempt that returned nil; as long as there is none the rows the backend
\* holds for the engine stay as they were, and a call that has returned
\* without one has returned an error.
C19_ResetOnlyAfterImportSucceeded ==
    [][call'.op = "UnsafeImportAndReset" =>
         /\ \A p \in Calls(call', "ResetEngine") :
               /\ p = Len(call'.trace) /\ p > 1
               /\ call'.trace[p - 1].k = "ImportEngine"
               /\ call'.trace[p - 1].r = "nil"
         /\ Calls(call', "ResetEngine") = {} =>
               /\ bRows'[call'.u] = bRows[call'.u]
               /\ call'.pc = "done" =>
                     /\ call'.ret.kind # "nil"
                     /\ call'.trace[Len(call'.trace)].r # "nil"]_vars

\* C19 witness: UnsafeImportAndReset has returned the annotated error after
\* three retryable ImportEngine failures on an open engine that holds rows;
\* the backend was never asked to reset it.
C19_Witness ==
    /\ call.op = "UnsafeImportAndReset" /\ call.pc = "done"
    /\ call.ret.kind = "retryable" /\ call.ret.ann # ""
    /\ Cardinality(Calls(call, "ImportEngine")) = 3
    /\ Calls(call, "ResetEngine") = {}
    /\ bState[call.u] = "open" /\ bRows[call.u] # <<>>

-----------------------------------------------------------------------------
(* OpenEngine and Close on several goroutines, the failpoint set: each      *)
(* backend call, each counter increment and each of the guard's two counter *)
(* reads is a step of its own                                               *)

\* how many goroutines call OpenEngine and Close
NumGoroutines == 2

\* cap on the open counter
MaxOpens == 3

Goroutines == 1..NumGoroutines

\* diff: successful opens minus successful closes when the guard made its test
NoGoroutine == [pc |-> "idle", u |-> "", openRead |-> 0, closedRead |-> 0, diff |-> 0]

Max(a, b) == IF a >= b THEN a ELSE b

concurrentRest == <<maxChunk, failpoint, opened, closed, call,
                    wf, hist, fileSizes, quotaRes, ident, cancelled>>

\* Backend.OpenEngine up to the return of be.abstract.OpenEngine
GoOpenEngine(g, tableName, engineID, res) ==
    LET engineUUID == MakeUUID(tableName, engineID)[2]
    IN  /\ ~aborted
        /\ gor[g].pc = "idle"
        /\ BackendCall("OpenEngine", engineUUID, <<>>, res)
        /\ gor' = IF res = "nil"
                  THEN [gor EXCEPT ![g] = [@ EXCEPT !.pc = "inc", !.u = engineUUID]]
                  ELSE gor
        /\ nOpened' = IF res = "nil" THEN nOpened + 1 ELSE nOpened
        /\ peak' = Max(peak, nOpened' - nClosed)
        /\ UNCHANGED <<openCount, closedCount, aborted, nClosed>>
        /\ UNCHANGED concurrentRest

\* openCounter.Inc(); with the failpoint off the OpenedEngine is returned
GoOpenCounterInc(g) ==
    /\ ~aborted
    /\ gor[g].pc = "inc"
    /\ openCount' = openCount + 1
    /\ gor' = [gor EXCEPT ![g] = [@ EXCEPT !.pc = IF failpoint = FailpointOff
                                                  THEN "opened" ELSE "read1"]]
    /\ UNCHANGED <<bState, bRows, everClosed, closedCount, aborted, nOpened,
                   nClosed, peak>>
    /\ UNCHANGED concurrentRest

\* the failpoint's first metric.ReadCounter
GoGuardFirstRead(g) ==
    /\ ~aborted
    /\ gor[g].pc = "read1"
    /\ gor' = [gor EXCEPT ![g] = [ReadCounter(@, GuardReadOrder[1]) EXCEPT !.pc = "read2"]]
    /\ UNCHANGED <<bState, bRows, everClosed, openCount, closedCount, aborted,
                   nOpened, nClosed, peak>>
    /\ UNCHANGED concurrentRest

\* the failpoint's second metric.ReadCounter and its test: panic, or the
\* OpenedEngine is returned
GoGuardSecondRead(g) ==
    LET r == [ReadCounter(gor[g], GuardReadOrder[2]) EXCEPT !.diff = nOpened - nClosed]
    IN  /\ ~aborted
        /\ gor[g].pc = "read2"
        /\ aborted' = FailIfEngineCountExceeds(r.openRead, r.closedRead)
        /\ gor' = IF aborted'
                  THEN [gor EXCEPT ![g] = [r EXCEPT !.pc = "panic"]]
                  ELSE [gor EXCEPT ![g] = [NoGoroutine EXCEPT !.pc = "opened", !.u = r.u,
                                                              !.diff = r.diff]]
        /\ UNCHANGED <<bState, bRows, everClosed, openCount, closedCount, nOpened,
                       nClosed, peak>>
        /\ UNCHANGED concurrentRest

\* OpenedEngine.Close up to the return of unsafeClose
GoClose(g, res) ==
    /\ ~aborted
    /\ gor[g].pc = "opened"
    /\ BackendCall("CloseEngine", gor[g].u, <<>>, res)
    /\ gor' = IF res = "nil"
              THEN [gor EXCEPT ![g] = [@ EXCEPT !.pc = "closeInc"]]
              ELSE gor
    /\ nClosed' = IF res = "nil" THEN nClosed + 1 ELSE nClosed
    /\ UNCHANGED <<openCount, closedCount, aborted, nOpened, peak>>
    /\ UNCHANGED concurrentRest

\* metric.ImporterEngineCounter.WithLabelValues("closed").Inc()
GoClosedCounterInc(g) ==
    /\ ~aborted
    /\ gor[g].pc = "closeInc"
    /\ closedCount' = closedCount + 1
    /\ gor' = [gor EXCEPT ![g] = NoGoroutine]
    /\ UNCHANGED <<bState, bRows, everClosed, openCount, aborted, nOpened, nClosed,
                   peak>>
    /\ UNCHANGED concurrentRest

InitConcurrent ==
    /\ InitLifecycle
    /\ maxChunk = MaxChunk
    /\ failpoint \in 0..MaxCeiling
    /\ wf = NoWorkflow
    /\ hist = <<>>
    /\ fileSizes = <<>>
    /\ quotaRes = NoQuotaRes
    /\ ident = NoIdent
    /\ cancelled = NoCancel
    /\ gor = [g \in Goroutines |-> NoGoroutine]
    /\ peak = 0

NextConcurrent ==
    \/ \E g \in Goroutines, t \in Tables, e \in EngineIDs, res \in ResKinds :
          /\ nOpened < MaxOpens
          /\ GoOpenEngine(g, t, e, res)
    \/ \E g \in Goroutines : GoOpenCounterInc(g)
    \/ \E g \in Goroutines : GoGuardFirstRead(g)
    \/ \E g \in Goroutines : GoGuardSecondRead(g)
    \/ \E g \in Goroutines, res \in ResKinds : GoClose(g, res)
    \/ \E g \in Goroutines : GoClosedCounterInc(g)

SpecConcurrent == InitConcurrent /\ [][NextConcurrent]_vars

-----------------------------------------------------------------------------
(* The counters with the failpoint off: one caller opens, closes and cleans *)
(* up engines while other goroutines open and close engines too             *)

InitCounters ==
    /\ InitLifecycle
    /\ maxChunk = MaxChunk
    /\ failpoint = FailpointOff
    /\ wf = NoWorkflow
    /\ hist = <<>>
    /\ fileSizes = <<>>
    /\ quotaRes = NoQuotaRes
    /\ ident = NoIdent
    /\ cancelled = NoCancel
    /\ gor = [g \in Goroutines |-> NoGoroutine]
    /\ peak = 0

NextCounters ==
    \/ \E t \in Tables, e \in EngineIDs, res \in ResKinds :
          nOpened < AnyCount /\ OpenEngine(t, e, res) /\ UNCHANGED otherVars
    \/ OpenCounterInc /\ UNCHANGED otherVars
    \/ \E u \in UUIDs, res \in ResKinds :
          nClosed < AnyCount /\ Close(u, res) /\ UNCHANGED otherVars
    \/ CloseCounterInc /\ UNCHANGED otherVars
    \/ \E u \in UUIDs, res \in ResKinds : Cleanup(u, res) /\ UNCHANGED otherVars
    \/ \E g \in Goroutines, t \in Tables, e \in EngineIDs, res \in ResKinds :
          nOpened < AnyCount /\ GoOpenEngine(g, t, e, res)
    \/ \E g \in Goroutines : GoOpenCounterInc(g)
    \/ \E g \in Goroutines, res \in ResKinds :
          nClosed < AnyCount /\ GoClose(g, res)
    \/ \E g \in Goroutines : GoClosedCounterInc(g)

SpecCounters == InitCounters /\ [][NextCounters]_vars

\* C10 as stated: with the failpoint set to ceiling c, an OpenEngine call whose
\* backend OpenEngine succeeded panics if the successful opens (this one
\* included) minus the successful closes are above c when the guard makes its
\* test, and returns the OpenedEngine if they are not.
C10_GuardIffStrictlyAbove ==
    \A g \in Goroutines :
       /\ gor[g].pc = "panic" => gor[g].diff > failpoint
       /\ gor[g].pc = "opened" => gor[g].diff <= failpoint

\* C20 as stated: with OpenEngine and Close running on several goroutines,
\* whenever the guard has aborted the process, the successful opens minus the
\* successful closes had at some instant of the execution been above the
\* ceiling.
C20_AbortOnlyIfTrulyAbove ==
    aborted => peak > failpoint

\* the backend operation behind a layer operation that does not retry
BackendOpOf(op) ==
    CASE op = "OpenEngine" -> "OpenEngine"
      [] op = "Close" -> "CloseEngine"
      [] op = "Cleanup" -> "CleanupEngine"

\* the calls, the caller's and the goroutines', that are between a backend
\* call that returned nil and the increment of their counter
PendingOpenIncs ==
    (IF call.pc = "openInc" THEN 1 ELSE 0)
       + Cardinality({g \in Goroutines : gor[g].pc = "inc"})

PendingClosedIncs ==
    (IF call.pc = "closeInc" /\ call.trace[1].r = "nil" THEN 1 ELSE 0)
       + Cardinality({g \in Goroutines : gor[g].pc = "closeInc"})

\* C17: an OpenEngine, Close or Cleanup call makes exactly one call of its
\* backend operation, whatever its outcome; once it has returned, it has
\* returned the backend's error as it is and a handle only if the backend
\* returned nil, and after a failed Close the OpenedEngine is still held. With
\* other goroutines opening and closing engines at the same time, the open
\* and the closed counter are the numbers of OpenEngine and of Close calls
\* whose backend call returned nil, less the calls that have not yet reached
\* their increment: every success adds one, no failure adds any.
C17_OneBackendCallErrorUnchanged ==
    /\ openCount + PendingOpenIncs = nOpened
    /\ closedCount + PendingClosedIncs = nClosed
    /\ call.op \in {"OpenEngine", "Close", "Cleanup"} =>
          /\ Len(call.trace) = 1
          /\ call.trace[1].k = BackendOpOf(call.op)
          /\ call.trace[1].u = call.u
          /\ call.pc = "done" =>
                /\ call.ret = Err(call.trace[1].r)
                /\ call.handle <=> (call.op # "Cleanup" /\ call.trace[1].r = "nil")
                /\ (call.op = "OpenEngine" /\ call.handle) => call.u \in opened
                /\ (call.op = "Close" /\ call.handle) => call.u \in closed
          /\ call.op = "Close" => call.u \in opened

\* C17 witness: a Close of the caller on an engine that is open has failed
\* with a retryable error after one backend call, after a successful
\* OpenEngine and a successful Close have been counted, while a goroutine
\* whose backend OpenEngine returned nil has not yet incremented the open
\* counter.
C17_Witness ==
    /\ call.op = "Close" /\ call.pc = "done"
    /\ call.ret.kind = "retryable" /\ ~call.handle
    /\ Len(call.trace) = 1
    /\ bState[call.u] = "open"
    /\ openCount >= 1 /\ closedCount >= 1
    /\ \E g \in Goroutines : gor[g].pc = "inc"

====
